---- MODULE Spec2Model ----
(***************************************************************************)
(* Model of the gold-price extraction subsystem (utils.py, scraper.py).    *)
(*                                                                         *)
(* A text is a sequence of characters.  A character is a one-element name: *)
(* ASCII characters stand for themselves ("3", ",", " ", "E"); the others   *)
(* are named:                                                               *)
(*   "a0" .. "a9"  Arabic-Indic digits U+0660 .. U+0669                     *)
(*   "adec"        Arabic decimal separator  U+066B                         *)
(*   "athou"       Arabic thousands separator U+066C                        *)
(*   "nbsp"        no-break space U+00A0,  "tab"  the tab character         *)
(*   "Ain" "Ya" "Alef" "Ra" "Jim" "Mim" "Nun" "He" "Sad" "TaM" "Lam" "Waw"  *)
(*   "Sin" "Thal" "Ba" "Shin"   the Arabic letters of the keywords; "TaM"   *)
(*   is the ta marbuta                                                      *)
(* Python's re works on str patterns, so \d, \s and \w are the Unicode      *)
(* classes: \d matches the Arabic-Indic digits, \s matches U+00A0.          *)
(***************************************************************************)
EXTENDS Integers, Sequences, FiniteSets, TLC

VARIABLES
    text, npc, cleaned, val,
    links, idx, pc, attempt, title, candidates, j, score, pairs,
    best_pair, best_score, best_text, pages, prices,
    stage, st, returned, env

normVars == <<text, npc, cleaned, val>>
fetchVars == <<links, idx, pc, attempt, title, candidates, j, score, pairs,
               best_pair, best_score, best_text, pages, prices>>
graphVars == <<stage, st, returned, env>>
vars == <<text, npc, cleaned, val,
          links, idx, pc, attempt, title, candidates, j, score, pairs,
          best_pair, best_score, best_text, pages, prices,
          stage, st, returned, env>>

----------------------------------------------------------------------------
(* Character classes                                                       *)

WesternDigits == {"0", "1", "2", "3", "4", "5", "6", "7", "8", "9"}

\* utils.py _ARABIC_DIGITS and scraper.py _AR_DIGITS: the same table
ArabicDigitMap ==
    [a0 |-> "0", a1 |-> "1", a2 |-> "2", a3 |-> "3", a4 |-> "4",
     a5 |-> "5", a6 |-> "6", a7 |-> "7", a8 |-> "8", a9 |-> "9"]

ArabicDigits == DOMAIN ArabicDigitMap

DigitVal ==
    ("0" :> 0) @@ ("1" :> 1) @@ ("2" :> 2) @@ ("3" :> 3) @@ ("4" :> 4) @@
    ("5" :> 5) @@ ("6" :> 6) @@ ("7" :> 7) @@ ("8" :> 8) @@ ("9" :> 9)

\* \d of a str pattern: any Unicode decimal digit
IsDigit(c) == c \in WesternDigits \/ c \in ArabicDigits

\* \s of a str pattern, and what str.strip() strips
IsSpace(c) == c \in {" ", "tab", "nbsp"}

Letters ==
    {"Ain", "Ya", "Alef", "Ra", "Jim", "Mim", "Nun", "He", "Sad", "TaM",
     "Lam", "Waw", "Sin", "Thal", "Ba", "Shin",
     "E", "G", "P", "e", "g", "p", "r", "i", "c", "a", "b"}

\* \w: letters and digits (the underscore is not in the alphabet)
IsWord(c) == c \in Letters \/ IsDigit(c)

\* str.lower() / re.IGNORECASE on the letters of the alphabet
Lower(c) ==
    CASE c = "E" -> "e"
      [] c = "G" -> "g"
      [] c = "P" -> "p"
      [] OTHER -> c

----------------------------------------------------------------------------
(* Sequence helpers: Python str operations                                 *)

Min(a, b) == IF a < b THEN a ELSE b

\* s[i:j] in 1-based, end-exclusive form: characters i .. j-1
Slice(s, i, e) == SubSeq(s, i, e - 1)

\* s.startswith(w, i-1)
StartsAt(s, i, w) ==
    /\ i >= 1
    /\ i + Len(w) - 1 <= Len(s)
    /\ \A n \in 1..Len(w) : s[i + n - 1] = w[n]

\* the same under re.IGNORECASE
StartsAtCI(s, i, w) ==
    /\ i >= 1
    /\ i + Len(w) - 1 <= Len(s)
    /\ \A n \in 1..Len(w) : Lower(s[i + n - 1]) = Lower(w[n])

\* w in s
Contains(s, w) == \E i \in 1..(Len(s) - Len(w) + 1) : StartsAt(s, i, w)

\* s.replace(a, b) for single characters
ReplaceChar(s, a, b) == [i \in 1..Len(s) |-> IF s[i] = a THEN b ELSE s[i]]

\* s.replace(a, "")
RemoveChar(s, a) == SelectSeq(s, LAMBDA c : c # a)

\* s.translate(_ARABIC_DIGITS)
Translate(s) ==
    [i \in 1..Len(s) |->
        IF s[i] \in ArabicDigits THEN ArabicDigitMap[s[i]] ELSE s[i]]

\* s.lower()
LowerStr(s) == [i \in 1..Len(s) |-> Lower(s[i])]

\* the least and the greatest element of a non-empty set of numbers
Least(S) == CHOOSE i \in S : \A i2 \in S : i <= i2
Greatest(S) == CHOOSE i \in S : \A i2 \in S : i2 <= i

FirstStop(stops, i, n) ==
    IF stops # {} THEN Least(stops) ELSE IF i > n THEN i ELSE n + 1

\* first index >= i whose character is outside the class, Len(s)+1 if none:
\* where a greedy X* that started at i stops
SkipWhile(s, i, In(_)) == FirstStop({n \in i..Len(s) : ~In(s[n])}, i, Len(s))

\* s.strip()
RECURSIVE RStrip(_)
RStrip(s) ==
    IF s # <<>> /\ IsSpace(s[Len(s)]) THEN RStrip(SubSeq(s, 1, Len(s) - 1))
    ELSE s

Strip(s) == RStrip(Slice(s, SkipWhile(s, 1, IsSpace), Len(s) + 1))

----------------------------------------------------------------------------
(* utils.py                                                                *)

\* A float is m / 10^k with no trailing zero in the fraction, so two floats
\* are equal exactly when their records are.  The texts of the model are at
\* most a few digits long, far below the 15 significant digits a double
\* holds exactly, so decimal equality is double equality.
NoFloat == [some |-> FALSE, m |-> 0, k |-> 0]

RECURSIVE MkFloat(_, _)
MkFloat(m, k) ==
    IF k > 0 /\ m % 10 = 0 THEN MkFloat(m \div 10, k - 1)
    ELSE [some |-> TRUE, m |-> m, k |-> k]

RECURSIVE Pow10(_)
Pow10(n) == IF n <= 0 THEN 1 ELSE 10 * Pow10(n - 1)

RECURSIVE DigitsToNat(_)
DigitsToNat(s) ==
    IF s = <<>> THEN 0
    ELSE 10 * DigitsToNat(SubSeq(s, 1, Len(s) - 1)) + DigitVal[s[Len(s)]]

IsDigitStr(s) == \A i \in 1..Len(s) : s[i] \in WesternDigits

IsSign(c) == c \in {"+", "-"}

\* float(s) on a string without whitespace: [sign] digits [. digits]
\* [(e|E) [sign] digits], at least one digit in the mantissa.  The forms
\* "inf", "nan" and digit-group underscores need characters that are not in
\* the alphabet.  The parse is staged: each operator splits off one part
\* and hands the parts on.
NotE(c) == c \notin {"e", "E"}
NotDot(c) == c # "."

\* the value sgn * M * 10^(x - f) of a well-formed literal
FloatValue(sgn, M, f, x) ==
    IF x >= f THEN MkFloat(sgn * M * Pow10(x - f), 0)
    ELSE MkFloat(sgn * M, f - x)

\* digits of the integer part, of the fraction and of the exponent
FloatDigits(sgn, intPart, frac, hasExp, eSgn, eDigits) ==
    IF /\ IsDigitStr(intPart)
       /\ IsDigitStr(frac)
       /\ Len(intPart) + Len(frac) >= 1
       /\ hasExp => (eDigits # <<>> /\ IsDigitStr(eDigits))
    THEN FloatValue(sgn, DigitsToNat(intPart \o frac), Len(frac),
                    eSgn * DigitsToNat(eDigits))
    ELSE NoFloat

\* the mantissa split at its first "."
FloatMantissa(sgn, mant, dot, hasExp, eSgn, eDigits) ==
    FloatDigits(sgn, Slice(mant, 1, dot), Slice(mant, dot + 1, Len(mant) + 1),
                hasExp, eSgn, eDigits)

\* the exponent's own sign
FloatExponent(sgn, mant, hasExp, expo) ==
    IF expo # <<>> /\ IsSign(expo[1])
    THEN FloatMantissa(sgn, mant, SkipWhile(mant, 1, NotDot), hasExp,
                       IF expo[1] = "-" THEN -1 ELSE 1, Tail(expo))
    ELSE FloatMantissa(sgn, mant, SkipWhile(mant, 1, NotDot), hasExp, 1, expo)

\* the literal split at its first "e" or "E"
FloatSplit(sgn, body, ePos) ==
    FloatExponent(sgn, Slice(body, 1, ePos), ePos <= Len(body),
                  Slice(body, ePos + 1, Len(body) + 1))

FloatUnsigned(sgn, body) == FloatSplit(sgn, body, SkipWhile(body, 1, NotE))

FloatOf(s) ==
    IF s # <<>> /\ IsSign(s[1])
    THEN FloatUnsigned(IF s[1] = "-" THEN -1 ELSE 1, Tail(s))
    ELSE FloatUnsigned(1, s)

\* _to_float: float(s), None on any exception
ToFloat(s) == FloatOf(s)

\* _WS.sub("", s)
RemoveSpaces(s) == SelectSeq(s, LAMBDA c : ~IsSpace(c))

\* the separator branch with the two replacements exchanged
DisambiguateWrongBranch(s) ==
    LET has_comma == Contains(s, <<",">>)
        has_dot   == Contains(s, <<".">>)
    IN  IF has_comma /\ has_dot THEN ReplaceChar(s, ",", ".")
        ELSE IF has_comma /\ ~has_dot THEN RemoveChar(s, ",")
        ELSE s

\* the separator branch of _standardize_separators: has_comma, has_dot and
\* the if / elif on them
Disambiguate(s) ==
    LET has_comma == Contains(s, <<",">>)
        has_dot   == Contains(s, <<".">>)
    IN  IF has_comma /\ has_dot THEN RemoveChar(s, ",")
        ELSE IF has_comma /\ ~has_dot THEN ReplaceChar(s, ",", ".")
        ELSE s

StandardizeSeparators(s) ==
    LET s1 == Translate(s)
        s2 == ReplaceChar(s1, "nbsp", " ")
        s3 == ReplaceChar(s2, "adec", ".")
        s4 == RemoveChar(s3, "athou")
        s5 == RemoveSpaces(s4)
    IN  Disambiguate(s5)

\* _NUM_TOKEN = [+-]?\d[\d\s.,٫٬]*
IsTokenChar(c) == IsDigit(c) \/ IsSpace(c) \/ c \in {".", ",", "adec", "athou"}

TokenStartsAt(s, i) ==
    \/ i <= Len(s) /\ IsDigit(s[i])
    \/ i + 1 <= Len(s) /\ IsSign(s[i]) /\ IsDigit(s[i + 1])

\* the match of _NUM_TOKEN that starts at b
TokenFrom(s, b) ==
    Slice(s, b, SkipWhile(s, IF IsSign(s[b]) THEN b + 2 ELSE b + 1, IsTokenChar))

FirstToken(s, starts) == IF starts = {} THEN <<>> ELSE <<TokenFrom(s, Least(starts))>>

\* _NUM_TOKEN.search(text): <<>> when there is no match, else <<m.group(0)>>
NumTokenSearch(s) == FirstToken(s, {i \in 1..Len(s) : TokenStartsAt(s, i)})

\* token = _standardize_separators(m.group(0)); return _to_float(token)
TokenValue(m) == IF m = <<>> THEN NoFloat ELSE ToFloat(StandardizeSeparators(m[1]))

\* "if val is not None: return val", else the fallback on the first token
DirectOrToken(direct, s) == IF direct.some THEN direct ELSE TokenValue(NumTokenSearch(s))

\* normalize_number(text)
NormalizeNumber(s) ==
    IF s = <<>> THEN NoFloat
    ELSE DirectOrToken(ToFloat(StandardizeSeparators(Strip(s))), s)

----------------------------------------------------------------------------
(* scraper.py: keywords and patterns                                       *)

W_karat  == <<"Ain", "Ya", "Alef", "Ra">>                 \* عيار
W_gram   == <<"Jim", "Ra", "Alef", "Mim">>                \* جرام
W_pound  == <<"Jim", "Nun", "Ya", "He">>                  \* جنيه
W_misri  == <<"Mim", "Sad", "Ra", "Ya">>                  \* مصري
W_jm     == <<"Jim", ".", "Mim">>                         \* ج.م
W_egp    == <<"E", "G", "P">>
W_price  == <<"Sin", "Ain", "Ra">>                        \* سعر
W_priceEn == <<"p", "r", "i", "c", "e">>
W_today  == <<"Alef", "Lam", "Ya", "Waw", "Mim">>         \* اليوم
W_gold   == <<"Thal", "He", "Ba">>                        \* ذهب
W_golden == <<"Thal", "He", "Ba", "Ya", "TaM">>           \* ذهبية
W_making == <<"Mim", "Sad", "Nun", "Ain", "Ya", "TaM">>   \* مصنعية
W_withMaking == <<"Ba", "Alef", "Lam">> \o W_making       \* بالمصنعية
W_inclMaking ==                                           \* شاملة المصنعية
    <<"Shin", "Alef", "Mim", "Lam", "TaM", " ", "Alef", "Lam">> \o W_making

\* karat: None
NoKarat == 0

\* \D{0,8}
MaxGap == 8

\* the class [\d.,\s] of _NUM and of the price groups
IsNumChar(c) == IsDigit(c) \/ IsSpace(c) \/ c \in {".", ","}

NonDigit(c) == ~IsDigit(c)

\* the karat group with 22 among its alternatives
KaratAtWith22(s, i) ==
    IF StartsAt(s, i, <<"1", "8">>) THEN 18
    ELSE IF StartsAt(s, i, <<"2", "1">>) THEN 21
    ELSE IF StartsAt(s, i, <<"2", "2">>) THEN 22
    ELSE IF StartsAt(s, i, <<"2", "4">>) THEN 24
    ELSE NoKarat

\* (18|21|24) at position i: the karat, NoKarat when none of them is there
KaratAt(s, i) ==
    IF StartsAt(s, i, <<"1", "8">>) THEN 18
    ELSE IF StartsAt(s, i, <<"2", "1">>) THEN 21
    ELSE IF StartsAt(s, i, <<"2", "4">>) THEN 24
    ELSE NoKarat

\* (?:21|24) at position i
Is21or24At(s, i) == StartsAt(s, i, <<"2", "1">>) \/ StartsAt(s, i, <<"2", "4">>)

\* re.finditer: the leftmost match at or after each position, the next search
\* starting where the match ended.  MatchAt(s, i) is <<>> or <<match>>, a
\* match being a record with its end e (exclusive); no pattern here matches
\* the empty string.
FindIter(s, MatchAt(_, _)) ==
    LET scan[i \in 1..(Len(s) + 1)] ==
            IF i > Len(s) THEN <<>>
            ELSE LET m == MatchAt(s, i)
                 IN  IF m = <<>> THEN scan[i + 1]
                     ELSE <<m[1]>> \o scan[m[1].e]
    IN  scan[1]

\* the match record: the karat and price groups, group 0, the end (exclusive)
Match(s, k, b, pb, pe, e) ==
    <<[karat |-> k, price |-> Slice(s, pb, pe), group0 |-> Slice(s, b, e),
       e |-> e]>>

\* PAT_KARAT_THEN_PRICE at position i.  After the karat, \D{0,8} is greedy
\* and must be followed by a digit, so it takes the whole run of non-digits,
\* which must be at most 8 long; the price group is the maximal [\d.,\s] run.
KaratThenPriceFrom(s, i, p1, q) ==
    IF KaratAt(s, p1) = NoKarat \/ q > Len(s) \/ q - (p1 + 2) > MaxGap THEN <<>>
    ELSE Match(s, KaratAt(s, p1), i, q, SkipWhile(s, q + 1, IsNumChar),
               SkipWhile(s, q + 1, IsNumChar))

KaratThenPriceKarat(s, i, p1) ==
    KaratThenPriceFrom(s, i, p1, SkipWhile(s, p1 + 2, NonDigit))

KaratThenPriceAt(s, i) ==
    IF ~StartsAt(s, i, W_karat) THEN <<>>
    ELSE KaratThenPriceKarat(s, i, SkipWhile(s, i + Len(W_karat), IsSpace))

\* the karat after the keyword at q: \s*(18|21|24)
KaratPos(s, q) == SkipWhile(s, q + Len(W_karat), IsSpace)

\* PAT_PRICE_THEN_KARAT at position i.  The price group is greedy: the whole
\* [\d.,\s] run from the digit at i, ending at e; \D{0,8} is greedy and
\* backtracks, so the karat keyword taken is the last one within 8
\* non-digits of e.  (A shorter price group only lengthens the gap: it
\* yields no other match.)
PriceThenKaratTo(s, i, e, q) ==
    Match(s, KaratAt(s, KaratPos(s, q)), i, i, e, KaratPos(s, q) + 2)

PriceThenKaratGap(s, i, e, qs) ==
    IF qs = {} THEN <<>> ELSE PriceThenKaratTo(s, i, e, Greatest(qs))

PriceThenKaratRun(s, i, e) ==
    PriceThenKaratGap(s, i, e,
        {q \in e..Min(e + MaxGap, Len(s)) :
            /\ \A n \in e..(q - 1) : ~IsDigit(s[n])
            /\ StartsAt(s, q, W_karat)
            /\ KaratAt(s, KaratPos(s, q)) # NoKarat})

PriceThenKaratAt(s, i) ==
    IF ~(i <= Len(s) /\ IsDigit(s[i])) THEN <<>>
    ELSE PriceThenKaratRun(s, i, SkipWhile(s, i + 1, IsNumChar))

\* جنيه(?:\s*مصري)? matched at i: its end, p being where مصري may stand
PoundEnd(s, i, p) ==
    IF StartsAt(s, p, W_misri) THEN p + Len(W_misri) ELSE i + Len(W_pound)

\* _CURRENCY at position i (re.IGNORECASE): the end of the match, 0 if none
CurrencyEnd(s, i) ==
    IF StartsAt(s, i, W_pound)
    THEN PoundEnd(s, i, SkipWhile(s, i + Len(W_pound), IsSpace))
    ELSE IF StartsAt(s, i, W_jm) THEN i + Len(W_jm)
    ELSE IF StartsAtCI(s, i, W_egp) THEN i + Len(W_egp)
    ELSE 0

\* PAT_PRICE_CURR at position i: group 1 is the whole [\d.,\s] run (it has
\* taken the whitespace that \s* could), the currency follows at once
PriceCurrRun(s, i, e, end) ==
    IF end = 0 THEN <<>> ELSE Match(s, NoKarat, i, i, e, end)

PriceCurrAt(s, i) ==
    IF ~(i <= Len(s) /\ IsDigit(s[i])) THEN <<>>
    ELSE PriceCurrRun(s, i, SkipWhile(s, i + 1, IsNumChar),
                      CurrencyEnd(s, SkipWhile(s, i + 1, IsNumChar)))

\* PAT_GRAM_21_24 at position i: the run ends at e, the gram keyword (after
\* an optional Lam) stands at g, the karat keyword may stand at p
Gram2124Karat(s, i, e, g, p2) ==
    IF StartsAt(s, g, W_gram) /\ Is21or24At(s, p2)
    THEN Match(s, NoKarat, i, i, e, p2 + 2)
    ELSE <<>>

Gram2124Word(s, i, e, g, p) ==
    Gram2124Karat(s, i, e, g,
                  IF StartsAt(s, p, W_karat) THEN KaratPos(s, p) ELSE p)

Gram2124Run(s, i, e, g) ==
    Gram2124Word(s, i, e, g, SkipWhile(s, g + Len(W_gram), IsSpace))

Gram2124At(s, i) ==
    IF ~(i <= Len(s) /\ IsDigit(s[i])) THEN <<>>
    ELSE Gram2124Run(s, i, SkipWhile(s, i + 1, IsNumChar),
                     IF StartsAt(s, SkipWhile(s, i + 1, IsNumChar), <<"Lam">>)
                     THEN SkipWhile(s, i + 1, IsNumChar) + 1
                     ELSE SkipWhile(s, i + 1, IsNumChar))

----------------------------------------------------------------------------
(* scraper.py: helpers                                                     *)

YearLo == 1900
YearHi == 2100

\* _looks_like_year, with the lower bound excluded
LooksLikeYearOpenLo(x) == YearLo < x.m /\ x.m <= YearHi /\ x.k = 0

\* _looks_like_year(x): 1900 <= x <= 2100 and float(x).is_integer()
LooksLikeYear(x) == YearLo <= x.m /\ x.m <= YearHi /\ x.k = 0

\* _has_gold_context
HasGoldContext(s) ==
    \E w \in {W_gold, W_gram, W_karat, W_golden, W_price} : Contains(s, w)

\* \b at position i: exactly one of s[i-1], s[i] is a word character
IsWordAt(s, i) == i >= 1 /\ i <= Len(s) /\ IsWord(s[i])
Boundary(s, i) == IsWordAt(s, i - 1) # IsWordAt(s, i)

AllDigits(s, a, b) == a >= 1 /\ b <= Len(s) /\ \A n \in a..b : IsDigit(s[n])

\* \b(20\d{2}-\d{2}-\d{2})\b at position i: the end of the match, 0 if none
IsoDateEnd(s, i) ==
    IF /\ Boundary(s, i)
       /\ StartsAt(s, i, <<"2", "0">>)
       /\ AllDigits(s, i + 2, i + 3)
       /\ StartsAt(s, i + 4, <<"-">>)
       /\ AllDigits(s, i + 5, i + 6)
       /\ StartsAt(s, i + 7, <<"-">>)
       /\ AllDigits(s, i + 8, i + 9)
       /\ Boundary(s, i + 10)
    THEN i + 10 ELSE 0

\* \b(\d{1,2}SEP\d{1,2}SEP20\d{2})\b at position i, the day a and the month
\* b digits long
DmyFits(s, i, sep, a, b) ==
    /\ Boundary(s, i)
    /\ AllDigits(s, i, i + a - 1)
    /\ StartsAt(s, i + a, <<sep>>)
    /\ AllDigits(s, i + a + 1, i + a + b)
    /\ StartsAt(s, i + a + b + 1, <<sep>>)
    /\ StartsAt(s, i + a + b + 2, <<"2", "0">>)
    /\ AllDigits(s, i + a + b + 4, i + a + b + 5)
    /\ Boundary(s, i + a + b + 6)

\* the end of the match at position i, 0 if none.  At a given position at
\* most one pair of lengths fits.
DmyDateEnd(s, i, sep) ==
    IF DmyFits(s, i, sep, 2, 2) THEN i + 10
    ELSE IF DmyFits(s, i, sep, 2, 1) \/ DmyFits(s, i, sep, 1, 2) THEN i + 9
    ELSE IF DmyFits(s, i, sep, 1, 1) THEN i + 8
    ELSE 0

SlashDateEnd(s, i) == DmyDateEnd(s, i, "/")
DashDateEnd(s, i) == DmyDateEnd(s, i, "-")

FirstDate(s, starts, EndAt(_, _)) ==
    IF starts = {} THEN <<>>
    ELSE Slice(s, Least(starts), EndAt(s, Least(starts)))

\* re.search(pat, text).group(1): <<>> when there is no match
DateSearch(s, EndAt(_, _)) ==
    FirstDate(s, {i \in 1..Len(s) : EndAt(s, i) # 0}, EndAt)

\* the first pattern that matches decides; then the word "today"
FirstFound(s, d1, d2, d3) ==
    IF d1 # <<>> THEN d1
    ELSE IF d2 # <<>> THEN d2
    ELSE IF d3 # <<>> THEN d3
    ELSE IF Contains(s, W_today) THEN W_today
    ELSE <<>>

\* _maybe_find_date(text); None is the empty text
MaybeFindDate(s) ==
    FirstFound(s, DateSearch(s, IsoDateEnd), DateSearch(s, SlashDateEnd),
               DateSearch(s, DashDateEnd))

----------------------------------------------------------------------------
(* scraper.py: _heuristic_price_parse                                      *)

\* The loop body the tiers share: skip the match when its price group gives
\* no number or a year-like one, else append the candidate
\* (price, currency, karat).
KeepCandidate(out, num, curr, karat) ==
    IF ~num.some \/ LooksLikeYear(num) THEN out
    ELSE Append(out, [price |-> num, currency |-> curr, karat |-> karat])

Candidates(ms, Currency(_), Karat(_)) ==
    LET out[n \in 0..Len(ms)] ==
            IF n = 0 THEN <<>>
            ELSE KeepCandidate(out[n - 1], NormalizeNumber(ms[n].price),
                               Currency(ms[n]), Karat(ms[n]))
    IN  out[Len(ms)]

PoundLabel(m) == W_pound
MatchedKarat(m) == m.karat
NoKaratOf(m) == NoKarat

\* curr = m.group(0)[len(m.group(1)):].strip()
MatchedCurrency(m) == Strip(Slice(m.group0, Len(m.price) + 1, Len(m.group0) + 1))

\* karat = 21 if "21" in m.group(0) else (24 if "24" in m.group(0) else None)
InferredKarat(m) ==
    IF Contains(m.group0, <<"2", "1">>) THEN 21
    ELSE IF Contains(m.group0, <<"2", "4">>) THEN 24
    ELSE NoKarat

\* 1) karat-specific matches: both surface forms
Tier1(s) ==
    Candidates(FindIter(s, KaratThenPriceAt), PoundLabel, MatchedKarat)
    \o Candidates(FindIter(s, PriceThenKaratAt), PoundLabel, MatchedKarat)

\* 2) number + currency, only in a text with gold context
Tier2(s) ==
    IF ~HasGoldContext(s) THEN <<>>
    ELSE Candidates(FindIter(s, PriceCurrAt), MatchedCurrency, NoKaratOf)

\* 3) number near the gram keyword
Tier3(s) == Candidates(FindIter(s, Gram2124At), PoundLabel, InferredKarat)

\* "if not out:" before tier 3
AfterTier2(out, s) == IF out = <<>> THEN Tier3(s) ELSE out

\* "if out: return out" after tier 1, dropped: tier 2 appends to tier 1
AfterTier1NoReturn(out, s) == AfterTier2(out \o Tier2(s), s)

\* "if out: return out" after tier 1
AfterTier1(out, s) == IF out # <<>> THEN out ELSE AfterTier2(Tier2(s), s)

\* _heuristic_price_parse(text)
HeuristicPriceParse(s) == AfterTier1(Tier1(s), s)

Points(b, n) == IF b THEN n ELSE 0

\* _score_snippet with the gram keyword worth one point
ScoreSnippetGramOne(s) ==
    Points(Contains(s, W_gram), 1)
    + Points(Contains(s, W_karat \o <<" ", "2", "1">>)
             \/ Contains(s, W_karat \o <<"2", "1">>), 2)
    + Points(Contains(s, W_karat \o <<" ", "2", "4">>)
             \/ Contains(s, W_karat \o <<"2", "4">>), 1)
    + Points(Contains(s, W_price), 1)
    + Points(Contains(LowerStr(s), W_priceEn), 1)
    + Points(Contains(s, <<"|">>) \/ Contains(s, <<"tab">>), 1)

\* _score_snippet(snippet)
ScoreSnippet(s) ==
    Points(Contains(s, W_gram), 2)
    + Points(Contains(s, W_karat \o <<" ", "2", "1">>)
             \/ Contains(s, W_karat \o <<"2", "1">>), 2)
    + Points(Contains(s, W_karat \o <<" ", "2", "4">>)
             \/ Contains(s, W_karat \o <<"2", "4">>), 1)
    + Points(Contains(s, W_price), 1)
    + Points(Contains(LowerStr(s), W_priceEn), 1)
    + Points(Contains(s, <<"|">>) \/ Contains(s, <<"tab">>), 1)

----------------------------------------------------------------------------
(* scraper.py: _extract_candidates, _get, fetch_and_extract_prices          *)

\* A fetched page, as BeautifulSoup presents it:
\*   title  soup.title's text, "" when the document has no <title>
\*   els    el.get_text(" ", strip=True) of the elements selected by
\*          ".price", ".gold", "table", "body", in that order
\*   whole  soup.get_text(" ", strip=True)

\* body_txt[:3000]
BodyLimit == 3000

\* _to_western_digits
ToWesternDigits(s) == Translate(s)

\* the texts kept by "if txt", else the body text cut at 3000
TextsOrBody(texts, whole) ==
    IF texts # <<>> THEN texts
    ELSE IF whole # <<>> THEN <<SubSeq(whole, 1, Min(Len(whole), BodyLimit))>>
    ELSE <<>>

WesternAll(texts) == [n \in 1..Len(texts) |-> ToWesternDigits(texts[n])]

\* _extract_candidates(soup)
ExtractCandidates(page) ==
    WesternAll(TextsOrBody(SelectSeq(page.els, LAMBDA t : t # <<>>), page.whole))

\* one attempt more than the decorator allows
StopAfterThree == 2 + 1

\* @retry(stop=stop_after_attempt(2), ...)
StopAfterAttempt == 2

\* best_score = -1
InitBestScore == -1

\* "if score > best_score" taken as "score >= best_score"
BetterOrEqual(sc, best) == sc >= best

\* "if score > best_score" taken one point too strict
BetterByTwo(sc, best) == sc > best + 1

\* if score > best_score
Better(sc, best) == sc > best

\* has_making = any(w in best_text for w in (...))
HasMaking(s) == \E w \in {W_making, W_withMaking, W_inclMaking} : Contains(s, w)

\* the dict appended to prices
PriceRecord(url, ttl, pair, txt) ==
    [site           |-> url,
     title          |-> ttl,
     price          |-> pair.price,
     currency       |-> pair.currency,
     karat          |-> pair.karat,
     unit           |-> W_gram,
     with_making    |-> HasMaking(txt),
     published_hint |-> MaybeFindDate(txt)]

\* the end of one iteration of "for url in links"
Advance ==
    /\ idx' = idx + 1
    /\ attempt' = 0
    /\ pc' = IF idx + 1 > Len(links) THEN "done" ELSE "get"

\* _get raises and tenacity tries again
GetFailRetry ==
    /\ pc = "get"
    /\ attempt + 1 < StopAfterAttempt
    /\ attempt' = attempt + 1
    /\ UNCHANGED <<links, idx, pc, title, candidates, j, score, pairs,
                   best_pair, best_score, best_text, pages, prices>>
    /\ UNCHANGED normVars
    /\ UNCHANGED graphVars

\* a failed page ends the whole loop instead of the iteration
GetFailAbort ==
    /\ pc = "get"
    /\ attempt + 1 = StopAfterAttempt
    /\ pages' = Append(pages, [url |-> links[idx], ok |-> FALSE,
                               error |-> "RetryError"])
    /\ idx' = idx + 1
    /\ attempt' = 0
    /\ pc' = "done"
    /\ UNCHANGED <<links, title, candidates, j, score, pairs,
                   best_pair, best_score, best_text, prices>>
    /\ UNCHANGED normVars
    /\ UNCHANGED graphVars

\* _get raises on the last attempt: tenacity raises RetryError, the except
\* clause records the page as failed
GetFailGiveUp ==
    /\ pc = "get"
    /\ attempt + 1 = StopAfterAttempt
    /\ pages' = Append(pages, [url |-> links[idx], ok |-> FALSE,
                               error |-> "RetryError"])
    /\ Advance
    /\ UNCHANGED <<links, title, candidates, j, score, pairs,
                   best_pair, best_score, best_text, prices>>
    /\ UNCHANGED normVars
    /\ UNCHANGED graphVars

\* _get returns (the retrying call is over): parse, take the title, reset the
\* best, extract candidates
GetOk(page) ==
    /\ pc = "get"
    /\ title' = IF page.title = "" THEN links[idx] ELSE page.title
    /\ best_pair' = <<>>
    /\ best_score' = InitBestScore
    /\ best_text' = <<>>
    /\ candidates' = ExtractCandidates(page)
    /\ j' = 1
    /\ attempt' = 0
    /\ pc' = "scan"
    /\ UNCHANGED <<links, idx, score, pairs, pages, prices>>
    /\ UNCHANGED normVars
    /\ UNCHANGED graphVars

\* one iteration of "for txt in candidates"
ScanSnippet ==
    /\ pc = "scan"
    /\ j <= Len(candidates)
    /\ score' = ScoreSnippet(candidates[j])
    /\ pairs' = HeuristicPriceParse(candidates[j])
    /\ IF pairs' # <<>> /\ Better(score', best_score)
       THEN /\ best_score' = score'
            /\ best_pair' = <<pairs'[1]>>
            /\ best_text' = candidates[j]
       ELSE UNCHANGED <<best_score, best_pair, best_text>>
    /\ j' = j + 1
    /\ UNCHANGED <<links, idx, pc, attempt, title, candidates, pages, prices>>
    /\ UNCHANGED normVars
    /\ UNCHANGED graphVars

\* the record is built with the flags of the whole page
EmitPageWholePageFlags ==
    /\ pc = "scan"
    /\ j > Len(candidates)
    /\ pages' = Append(pages, [url |-> links[idx], title |-> title, ok |-> TRUE])
    /\ prices' = IF best_pair # <<>>
                 THEN Append(prices,
                        [PriceRecord(links[idx], title, best_pair[1], best_text)
                           EXCEPT !.with_making =
                              \E n \in 1..Len(candidates) : HasMaking(candidates[n])])
                 ELSE prices
    /\ Advance
    /\ UNCHANGED <<links, title, candidates, j, score, pairs,
                   best_pair, best_score, best_text>>
    /\ UNCHANGED normVars
    /\ UNCHANGED graphVars

\* after the loop: record the page, and its price if a snippet matched
EmitPage ==
    /\ pc = "scan"
    /\ j > Len(candidates)
    /\ pages' = Append(pages, [url |-> links[idx], title |-> title, ok |-> TRUE])
    /\ prices' = IF best_pair # <<>>
                 THEN Append(prices,
                        PriceRecord(links[idx], title, best_pair[1], best_text))
                 ELSE prices
    /\ Advance
    /\ UNCHANGED <<links, title, candidates, j, score, pairs,
                   best_pair, best_score, best_text>>
    /\ UNCHANGED normVars
    /\ UNCHANGED graphVars

----------------------------------------------------------------------------
(* utils.py: normalize_number, step by step                                *)

\* "if not text", the direct attempt on the whole string
NormDirect ==
    /\ npc = "start"
    /\ IF text = <<>>
       THEN /\ val' = NoFloat
            /\ npc' = "done"
            /\ UNCHANGED cleaned
       ELSE /\ cleaned' = StandardizeSeparators(Strip(text))
            /\ val' = ToFloat(cleaned')
            /\ npc' = IF val'.some THEN "done" ELSE "fallback"
    /\ UNCHANGED text
    /\ UNCHANGED fetchVars
    /\ UNCHANGED graphVars

\* the fallback on the first numeric token
NormFallback ==
    /\ npc = "fallback"
    /\ LET m == NumTokenSearch(text)
       IN  IF m = <<>>
           THEN /\ val' = NoFloat
                /\ UNCHANGED cleaned
           ELSE /\ cleaned' = StandardizeSeparators(m[1])
                /\ val' = ToFloat(cleaned')
    /\ npc' = "done"
    /\ UNCHANGED text
    /\ UNCHANGED fetchVars
    /\ UNCHANGED graphVars

----------------------------------------------------------------------------
(* Inputs                                                                  *)

MaxLinks == 2
MaxSnippets == 2
MaxSegs == 2
MaxNormLen == 4

URLs == {"u1", "u2"}

\* all sequences over S of length at most n
RECURSIVE SeqsUpTo(_, _)
SeqsUpTo(S, n) ==
    IF n = 0 THEN {<<>>}
    ELSE LET shorter == SeqsUpTo(S, n - 1)
         IN  shorter \cup {Append(q, x) : q \in shorter, x \in S}

\* the texts the normalizer's documentation and tests name
\* ٣,٥٠٠
Ex1 ==
    <<"a3", ",", "a5", "a0", "a0">>

\* 3,500.75
Ex2 ==
    <<"3", ",", "5", "0", "0", ".", "7", "5">>

\* 12,5
Ex3 ==
    <<"1", "2", ",", "5">>

\* EGP 4,250
Ex4 ==
    <<"E", "G", "P", " ", "4", ",", "2", "5", "0">>

\* ٦٠٫٢
Ex5 ==
    <<"a6", "a0", "adec", "a2">>

\* the empty string
Ex6 ==
    <<>>

\* abc
Ex7 ==
    <<"a", "b", "c">>

NormAlphabet == {"5", "0", ",", ".", " ", "a5", "adec", "athou", "-", "b"}

NormInputs ==
    {Ex1, Ex2, Ex3, Ex4, Ex5, Ex6, Ex7} \cup SeqsUpTo(NormAlphabet, MaxNormLen)

\* snippets of whole pages
\* سعر جرام الذهب عيار 21 اليوم 3700 جنيه
P_today ==
    <<"Sin", "Ain", "Ra", " ", "Jim", "Ra", "Alef", "Mim", " ", "Alef",
      "Lam", "Thal", "He", "Ba", " ", "Ain", "Ya", "Alef", "Ra", " ",
      "2", "1", " ", "Alef", "Lam", "Ya", "Waw", "Mim", " ", "3", "7",
      "0", "0", " ", "Jim", "Nun", "Ya", "He">>

\* عيار 21: 3850 جنيه شاملة المصنعية
P_making ==
    <<"Ain", "Ya", "Alef", "Ra", " ", "2", "1", ":", " ", "3", "8",
      "5", "0", " ", "Jim", "Nun", "Ya", "He", " ", "Shin", "Alef",
      "Mim", "Lam", "TaM", " ", "Alef", "Lam", "Mim", "Sad", "Nun",
      "Ain", "Ya", "TaM">>

\* عيار ٢١ ٣٩٠٠ جنيه 20/10/2025
P_plain ==
    <<"Ain", "Ya", "Alef", "Ra", " ", "a2", "a1", " ", "a3", "a9",
      "a0", "a0", " ", "Jim", "Nun", "Ya", "He", " ", "2", "0", "/",
      "1", "0", "/", "2", "0", "2", "5">>

\* الذهب اليوم
P_nomatch ==
    <<"Alef", "Lam", "Thal", "He", "Ba", " ", "Alef", "Lam", "Ya",
      "Waw", "Mim">>

\* 3500 جنيه ذهب بالمصنعية 2025-10-20
P_zero ==
    <<"3", "5", "0", "0", " ", "Jim", "Nun", "Ya", "He", " ", "Thal",
      "He", "Ba", " ", "Ba", "Alef", "Lam", "Mim", "Sad", "Nun", "Ain",
      "Ya", "TaM", " ", "2", "0", "2", "5", "-", "1", "0", "-", "2", "0">>

PoolTexts == {P_today, P_making, P_plain}

\* the texts of e differ from one another
Distinct(e) == \A a, b \in 1..Len(e) : a # b => e[a] # e[b]

\* pages with a title and up to MaxSnippets selected elements of different
\* texts, one of them with an element of empty text, and pages without
\* title or selected element, whose body text is the fallback
PoolPages ==
    {[title |-> "Gold", els |-> e, whole |-> <<>>] :
        e \in {q \in SeqsUpTo(PoolTexts, MaxSnippets) : Distinct(q)}}
    \cup {[title |-> "Gold", els |-> <<<<>>, P_plain>>, whole |-> <<>>]}
    \cup {[title |-> "", els |-> <<>>, whole |-> w] : w \in {P_nomatch, P_zero}}

\* pieces of snippets; a generated snippet is up to MaxSegs of them in a row
\* عيار 21 
S_k21 ==
    <<"Ain", "Ya", "Alef", "Ra", " ", "2", "1", " ">>

\* عيار24 
S_k24 ==
    <<"Ain", "Ya", "Alef", "Ra", "2", "4", " ">>

\* 3700 جنيه 
S_pound ==
    <<"3", "7", "0", "0", " ", "Jim", "Nun", "Ya", "He", " ">>

\* 2024 جنيه 
S_year ==
    <<"2", "0", "2", "4", " ", "Jim", "Nun", "Ya", "He", " ">>

\* 1900 EGP 
S_y1900 ==
    <<"1", "9", "0", "0", " ", "E", "G", "P", " ">>

\* 3700 جرام 
S_gram ==
    <<"3", "7", "0", "0", " ", "Jim", "Ra", "Alef", "Mim", " ">>

\* 3700 جرام 21 
S_gram21 ==
    <<"3", "7", "0", "0", " ", "Jim", "Ra", "Alef", "Mim", " ", "2",
      "1", " ">>

\* 3210 لجرام 24 
S_lgram24 ==
    <<"3", "2", "1", "0", " ", "Lam", "Jim", "Ra", "Alef", "Mim", " ",
      "2", "4", " ">>

\* سعر 
S_price ==
    <<"Sin", "Ain", "Ra", " ">>

\* Price|
S_priceEn ==
    <<"P", "r", "i", "c", "e", "|">>

\* اليوم 
S_today ==
    <<"Alef", "Lam", "Ya", "Waw", "Mim", " ">>

\* 1.2.3 جنيه 
S_bad ==
    <<"1", ".", "2", ".", "3", " ", "Jim", "Nun", "Ya", "He", " ">>

\* 3,500.75 ج.م 
S_jm ==
    <<"3", ",", "5", "0", "0", ".", "7", "5", " ", "Jim", ".", "Mim",
      " ">>

\* ٣٧٠٠ جنيه مصري 
S_arabic ==
    <<"a3", "a7", "a0", "a0", " ", "Jim", "Nun", "Ya", "He", " ",
      "Mim", "Sad", "Ra", "Ya", " ">>

\* سعر جرام عيار 24 Price|
S_header ==
    <<"Sin", "Ain", "Ra", " ", "Jim", "Ra", "Alef", "Mim", " ", "Ain",
      "Ya", "Alef", "Ra", " ", "2", "4", " ", "P", "r", "i", "c", "e",
      "|">>

\* عيار 18 
S_k18 ==
    <<"Ain", "Ya", "Alef", "Ra", " ", "1", "8", " ">>

\* عيار 22 
S_k22 ==
    <<"Ain", "Ya", "Alef", "Ra", " ", "2", "2", " ">>

\* 3700 egp 
S_egp ==
    <<"3", "7", "0", "0", " ", "e", "g", "p", " ">>

Segments ==
    {S_k21, S_k24, S_pound, S_year, S_y1900,
     S_gram, S_gram21, S_lgram24, S_price, S_priceEn,
     S_today, S_bad, S_jm, S_arabic, S_header,
     S_k18, S_k22, S_egp}

RECURSIVE Concat(_)
Concat(ss) == IF ss = <<>> THEN <<>> ELSE ss[1] \o Concat(Tail(ss))

GenTexts == {Concat(ss) : ss \in SeqsUpTo(Segments, MaxSegs)}

GenPages == {[title |-> "", els |-> <<t>>, whole |-> <<>>] : t \in GenTexts}

----------------------------------------------------------------------------
(* Specifications                                                          *)

NormIdle == text = <<>> /\ npc = "idle" /\ cleaned = <<>> /\ val = NoFloat

\* no run of the graph
GraphIdle == stage = "idle" /\ st = <<>> /\ returned = <<>> /\ env = <<>>

FetchStart(ls) ==
    /\ links = ls
    /\ idx = 1
    /\ pc = IF ls = <<>> THEN "done" ELSE "get"
    /\ attempt = 0
    /\ title = ""
    /\ candidates = <<>>
    /\ j = 1
    /\ score = 0
    /\ pairs = <<>>
    /\ best_pair = <<>>
    /\ best_score = InitBestScore
    /\ best_text = <<>>
    /\ pages = <<>>
    /\ prices = <<>>

\* fetch_and_extract_prices on any list of links, pages from the pool
Init ==
    /\ NormIdle
    /\ GraphIdle
    /\ \E ls \in SeqsUpTo(URLs, MaxLinks) : FetchStart(ls)

Next ==
    \/ GetFailRetry
    \/ GetFailGiveUp
    \/ \E page \in PoolPages : GetOk(page)
    \/ ScanSnippet
    \/ EmitPage

Spec == Init /\ [][Next]_vars

\* fetch_and_extract_prices on one link, the page one generated snippet
InitParse == NormIdle /\ GraphIdle /\ FetchStart(<<"u1">>)

NextParse ==
    \/ GetFailRetry
    \/ GetFailGiveUp
    \/ \E page \in GenPages : GetOk(page)
    \/ ScanSnippet
    \/ EmitPage

SpecParse == InitParse /\ [][NextParse]_vars

\* normalize_number on one text
InitNorm ==
    /\ text \in NormInputs
    /\ npc = "start"
    /\ cleaned = <<>>
    /\ val = NoFloat
    /\ FetchStart(<<>>)
    /\ GraphIdle

NextNorm == NormDirect \/ NormFallback

SpecNorm == InitNorm /\ [][NextNorm]_vars

----------------------------------------------------------------------------
(* Properties of normalize_number                                          *)

\* the float m / 10^k
Float(m, k) == MkFloat(m, k)

\* C1: normalize_number returns 3500.0 for "٣,٥٠٠", 3500.75 for "3,500.75",
\* 12.5 for "12,5", 4250.0 for "EGP 4,250", 60.2 for "٦٠٫٢", and no value
\* for "" and for "abc".
C1_DocumentedExamples ==
    npc = "done" =>
        /\ text = Ex1 => val = Float(3500, 0)
        /\ text = Ex2 => val = Float(350075, 2)
        /\ text = Ex3 => val = Float(125, 1)
        /\ text = Ex4 => val = Float(4250, 0)
        /\ text = Ex5 => val = Float(602, 1)
        /\ text = Ex6 => val = NoFloat
        /\ text = Ex7 => val = NoFloat

\* the characters of a string over digits and the two separators, the digits
\* Western or Arabic-Indic, with whitespace among them
PlainNumberChars ==
    {"0", "5", "a5", ",", ".", " "}

IsPlainNumberText(s) == \A i \in 1..Len(s) : s[i] \in PlainNumberChars

\* s with its Arabic-Indic digits translated and its whitespace removed
DigitsTranslatedNoSpace(s) ==
    [i \in 1..Len(SelectSeq(s, LAMBDA c : c # " ")) |->
        LET c == SelectSeq(s, LAMBDA d : d # " ")[i]
        IN  IF c = "a5" THEN "5" ELSE c]

HasChar(s, c) == \E i \in 1..Len(s) : s[i] = c

\* what the separator rule makes of s
SeparatorRule(s) ==
    IF HasChar(s, ",") /\ HasChar(s, ".")
    THEN SelectSeq(s, LAMBDA c : c # ",")
    ELSE IF HasChar(s, ",")
    THEN [i \in 1..Len(s) |-> IF s[i] = "," THEN "." ELSE s[i]]
    ELSE s

\* C10: on every string over digits and the two separators, once the
\* Arabic-Indic digits are translated and the whitespace is removed, both
\* separators present means every ',' is removed and '.' kept, ',' alone
\* means every ',' becomes '.', and '.' alone or neither leaves the text
\* as it is.
C10_SeparatorRule ==
    [][(npc = "start" /\ text # <<>> /\ IsPlainNumberText(text))
         => cleaned' = SeparatorRule(DigitsTranslatedNoSpace(text))]_vars

\* a text with both separators has been standardized
C10_BothSeparators ==
    /\ npc = "done"
    /\ text = <<"a5", ",", "0", ".">>
    /\ cleaned = <<"5", "0", ".">>
    /\ val = Float(50, 0)

----------------------------------------------------------------------------
(* Properties of _heuristic_price_parse and _score_snippet                 *)

\* a snippet has been scored and parsed: it is candidates[j - 1], and score
\* and pairs are what the two functions returned for it
Scanned == pc = "scan" /\ j > 1

\* an integer value in [1900, 2100]
IsYearValue(x) == x.some /\ x.k = 0 /\ x.m >= 1900 /\ x.m <= 2100

\* C2: no candidate _heuristic_price_parse returns, from any tier, and so no
\* record fetch_and_extract_prices emits, has a price that is an integer in
\* [1900, 2100].
C2_NoYearPrice ==
    /\ \A n \in 1..Len(pairs) : ~IsYearValue(pairs[n].price)
    /\ \A n \in 1..Len(prices) : ~IsYearValue(prices[n].price)

\* "2024 جنيه 3700 جرام 21 " has been parsed: the year before the currency is
\* dropped, the price before the gram keyword is returned
C2_YearDropped ==
    /\ Scanned
    /\ candidates[j - 1] = S_year \o S_gram21
    /\ Len(pairs) = 1
    /\ pairs[1].price = Float(3700, 0)

\* C3: the candidates returned for one text all come from one tier: tier 1's
\* when tier 1 yields any, tier 2's only when tier 1 yields none, tier 3's
\* only when tiers 1 and 2 yield none.
C3_SingleTier ==
    Scanned =>
        /\ Tier1(candidates[j - 1]) # <<>> => pairs = Tier1(candidates[j - 1])
        /\ (Tier1(candidates[j - 1]) = <<>> /\ Tier2(candidates[j - 1]) # <<>>)
              => pairs = Tier2(candidates[j - 1])
        /\ (Tier1(candidates[j - 1]) = <<>> /\ Tier2(candidates[j - 1]) = <<>>)
              => pairs = Tier3(candidates[j - 1])

\* "عيار 21 3700 جنيه " has been parsed: it has a karat-anchored and a
\* currency-anchored match, and only the karat-anchored one is returned
C3_KaratBeatsCurrency ==
    /\ Scanned
    /\ candidates[j - 1] = S_k21 \o S_pound
    /\ Tier2(candidates[j - 1]) # <<>>
    /\ pairs = <<[price |-> Float(3700, 0), currency |-> W_pound, karat |-> 21]>>

\* the keyword checks of the score, on the scored snippet
HasGram == Contains(candidates[j - 1], W_gram)
HasKarat21 ==
    \/ Contains(candidates[j - 1], W_karat \o <<" ", "2", "1">>)
    \/ Contains(candidates[j - 1], W_karat \o <<"2", "1">>)
HasKarat24 ==
    \/ Contains(candidates[j - 1], W_karat \o <<" ", "2", "4">>)
    \/ Contains(candidates[j - 1], W_karat \o <<"2", "4">>)
HasArabicPrice == Contains(candidates[j - 1], W_price)
HasLiteralPrice ==
    \E i \in 1..Len(candidates[j - 1]) : StartsAtCI(candidates[j - 1], i, W_priceEn)
HasPipeOrTab == \E i \in 1..Len(candidates[j - 1]) : candidates[j - 1][i] \in {"|", "tab"}

\* C7 as stated: the score is the sum of +2 gram, +2 karat 21, +1 karat 24,
\* +1 price keyword (one point whether the Arabic word, the literal "price"
\* or both are present), +1 pipe or tab; every score is between 0 and 7; a
\* snippet with gram and karat 21 only scores 4, one with only the Arabic
\* price keyword scores 1.
C7_PriceKeywordOnce ==
    Scanned =>
        /\ score = Points(HasGram, 2) + Points(HasKarat21, 2)
                    + Points(HasKarat24, 1)
                    + Points(HasArabicPrice \/ HasLiteralPrice, 1)
                    + Points(HasPipeOrTab, 1)
        /\ score \in 0..7

\* C7, amended: the score is the sum of six independent checks, +2 gram,
\* +2 karat 21, +1 karat 24, +1 the Arabic price keyword, +1 the literal
\* "price" in any case, +1 pipe or tab; every score is between 0 and 8; a
\* snippet with gram and karat 21 only scores 4, one with only the Arabic
\* price keyword scores 1.
C7_ScoreSum ==
    Scanned =>
        /\ score = Points(HasGram, 2) + Points(HasKarat21, 2)
                    + Points(HasKarat24, 1)
                    + Points(HasArabicPrice, 1) + Points(HasLiteralPrice, 1)
                    + Points(HasPipeOrTab, 1)
        /\ score \in 0..8
        /\ candidates[j - 1] = S_k21 \o S_gram => score = 4
        /\ candidates[j - 1] = S_price => score = 1

\* "سعر جرام عيار 24 Price|عيار 21 " has been scored: every check holds,
\* both price keywords among them, and the score is 8
C7_AllChecks ==
    /\ Scanned
    /\ candidates[j - 1] = S_header \o S_k21
    /\ HasArabicPrice /\ HasLiteralPrice
    /\ score = 8

\* a number with the gram keyword right after it (after an optional Lam)
\* stands at i, and the number is a price: it has a value, not a year's
GramPriceAt(s, i) ==
    /\ IsDigit(s[i])
    /\ i = 1 \/ ~IsNumChar(s[i - 1])
    /\ \E e \in (i + 1)..Len(s) :
          /\ \A n \in i..(e - 1) : IsNumChar(s[n])
          /\ StartsAt(s, e, W_gram) \/ StartsAt(s, e, <<"Lam">> \o W_gram)
          /\ NormalizeNumber(SubSeq(s, i, e - 1)).some
          /\ ~IsYearValue(NormalizeNumber(SubSeq(s, i, e - 1)))

\* C9: in tier 3 a number immediately followed by the gram keyword yields a
\* candidate whether or not a karat 21/24 mention follows it; the
\* candidate's karat is 21 if the matched text contains "21", else 24 if it
\* contains "24", else unset; its currency is the pound label.
C9_GramWithoutKarat ==
    (/\ Scanned
     /\ Tier1(candidates[j - 1]) = <<>>
     /\ Tier2(candidates[j - 1]) = <<>>
     /\ \E i \in 1..Len(candidates[j - 1]) : GramPriceAt(candidates[j - 1], i))
    => /\ pairs # <<>>
       /\ \A n \in 1..Len(pairs) :
             /\ pairs[n].currency = W_pound
             /\ pairs[n].karat \in {21, 24, NoKarat}

----------------------------------------------------------------------------
(* Properties of fetch_and_extract_prices                                  *)

Last(q) == q[Len(q)]

\* the loop over the page's snippets is over: the next step records the page
PageScanned == pc = "scan" /\ j > Len(candidates)

\* the page has just been recorded as fetched: candidates, best_text and
\* best_pair are still those of that page
PageRecorded ==
    /\ pc \in {"get", "done"}
    /\ attempt = 0
    /\ pages # <<>>
    /\ Last(pages).ok

\* the snippets of the page with at least one pattern match
MatchingSnippets ==
    {n \in 1..Len(candidates) : HeuristicPriceParse(candidates[n]) # <<>>}

\* w has the highest score among the matching snippets and is the earliest
\* of those that have it
IsWinner(w) ==
    /\ w \in MatchingSnippets
    /\ \A n \in MatchingSnippets :
          \/ ScoreSnippet(candidates[n]) < ScoreSnippet(candidates[w])
          \/ ScoreSnippet(candidates[n]) = ScoreSnippet(candidates[w]) /\ w <= n

\* C4: the record of a fetched page is built from the snippet with the
\* highest score among those with a pattern match, the earliest of them on
\* a tie (a later snippet replaces the best only if its score is strictly
\* greater), and its price, currency and karat are those of that snippet's
\* first candidate.
C4_BestSnippet ==
    [][/\ (PageScanned /\ MatchingSnippets # {}) =>
            \E w \in MatchingSnippets :
                /\ IsWinner(w)
                /\ Len(prices') = Len(prices) + 1
                /\ Last(prices').price = HeuristicPriceParse(candidates[w])[1].price
                /\ Last(prices').currency =
                      HeuristicPriceParse(candidates[w])[1].currency
                /\ Last(prices').karat = HeuristicPriceParse(candidates[w])[1].karat
       /\ (pc = "scan" /\ best_pair # <<>> /\ best_pair' # best_pair) =>
            score' > best_score]_vars

\* a page whose two snippets match with the same score has been recorded:
\* the record has the price of the first
C4_TieFirstWins ==
    /\ PageRecorded
    /\ Len(candidates) = 2
    /\ MatchingSnippets = {1, 2}
    /\ ScoreSnippet(candidates[1]) = ScoreSnippet(candidates[2])
    /\ candidates[2] = P_making
    /\ prices # <<>>
    /\ Last(prices).price = Float(3900, 0)

\* C5: a fetched page contributes exactly one price record if one of its
\* snippets has a pattern match and none otherwise, its status record has
\* ok = TRUE either way, and no page contributes more than one record.
C5_OneRecordPerPage ==
    [][IF PageScanned
       THEN /\ pages' = Append(pages, [url |-> links[idx], title |-> title,
                                       ok |-> TRUE])
            /\ IF MatchingSnippets # {}
               THEN /\ Len(prices') = Len(prices) + 1
                    /\ SubSeq(prices', 1, Len(prices)) = prices
                    /\ Last(prices').site = links[idx]
               ELSE prices' = prices
       ELSE prices' = prices]_vars

\* a page without pattern match has been recorded as fetched, and no price
\* came of it
C5_NoMatchPage ==
    /\ PageRecorded
    /\ candidates = <<P_nomatch>>
    /\ Len(pages) = 1
    /\ prices = <<>>

\* C6: for any list of URLs and any pattern of failures there is one status
\* record per URL, in the list's order; a URL whose fetch fails gets
\* {url, ok: false, error} and no price record; the URLs after it are still
\* processed.
C6_OneStatusPerUrl ==
    /\ Len(pages) = (IF pc = "done" THEN Len(links) ELSE idx - 1)
    /\ \A i \in 1..Len(pages) :
          /\ pages[i].url = links[i]
          /\ ~pages[i].ok => DOMAIN pages[i] = {"url", "ok", "error"}
    /\ Len(prices) <= Cardinality({i \in 1..Len(pages) : pages[i].ok})
    /\ \A n \in 1..Len(prices) :
          \E i \in 1..Len(pages) : pages[i].ok /\ pages[i].url = prices[n].site

\* the first of two URLs failed on both attempts, the second was fetched and
\* gave the only price
C6_FailureThenSuccess ==
    /\ pc = "done"
    /\ links = <<"u1", "u2">>
    /\ ~pages[1].ok
    /\ pages[2].ok
    /\ Len(prices) = 1
    /\ prices[1].site = "u2"

\* a making-charge phrase stands in s
MakingPhraseIn(s) == \E i \in 1..Len(s) : StartsAt(s, i, W_making)

\* 20/10/2025
Date_dmy ==
    <<"2", "0", "/", "1", "0", "/", "2", "0", "2", "5">>

\* 2025-10-20
Date_iso ==
    <<"2", "0", "2", "5", "-", "1", "0", "-", "2", "0">>

\* C8: with_making and published_hint of a page's record are computed from
\* the winning snippet alone: with_making is true exactly when it has a
\* making-charge phrase, published_hint is the first date in it (ISO first,
\* then dd/mm/yyyy, then dd-mm-yyyy), else the word "اليوم" if it has it,
\* else unset.  The snippet "سعر جرام الذهب عيار 21 اليوم 3700 جنيه" gives
\* price 3700.0, karat 21, published_hint "اليوم", with_making false.
C8_FlagsFromWinner ==
    [][(PageScanned /\ MatchingSnippets # {}) =>
         \E w \in MatchingSnippets :
            /\ IsWinner(w)
            /\ Last(prices').with_making = MakingPhraseIn(candidates[w])
            /\ Last(prices').published_hint = MaybeFindDate(candidates[w])
            /\ candidates[w] = P_today =>
                  /\ Last(prices').price = Float(3700, 0)
                  /\ Last(prices').karat = 21
                  /\ Last(prices').published_hint = W_today
                  /\ Last(prices').with_making = FALSE
            /\ candidates[w] = P_making =>
                  /\ Last(prices').published_hint = <<>>
                  /\ Last(prices').with_making = TRUE
            /\ candidates[w] = ToWesternDigits(P_plain) =>
                  /\ Last(prices').published_hint = Date_dmy
                  /\ Last(prices').with_making = FALSE
            /\ candidates[w] = P_zero =>
                  /\ Last(prices').published_hint = Date_iso
                  /\ Last(prices').with_making = TRUE]_vars

\* the page with the snippet of the example and then one that names the
\* making charge has been recorded: the record is the example's
C8_ExampleRecord ==
    /\ PageRecorded
    /\ candidates = <<P_today, P_making>>
    /\ prices # <<>>
    /\ Last(prices).price = Float(3700, 0)
    /\ Last(prices).karat = 21
    /\ Last(prices).published_hint = W_today
    /\ Last(prices).with_making = FALSE

----------------------------------------------------------------------------
(* Properties of the karat and the currency of a candidate                 *)

\* C11: the karat of every candidate _heuristic_price_parse returns, in
\* any tier, and of every price record, is unset or one of 18, 21, 24.
C11_KaratValues ==
    /\ \A n \in 1..Len(pairs) : pairs[n].karat \in {NoKarat, 18, 21, 24}
    /\ \A n \in 1..Len(prices) : prices[n].karat \in {NoKarat, 18, 21, 24}

\* "3700 جنيه عيار 22 " has been parsed: the karat 22 is not taken, the
\* price is returned by the currency tier with its karat unset
C11_Karat22Ignored ==
    /\ Scanned
    /\ candidates[j - 1] = S_pound \o S_k22
    /\ pairs = <<[price |-> Float(3700, 0), currency |-> W_pound,
                  karat |-> NoKarat]>>

----------------------------------------------------------------------------
(* agents.py: fetch_agent                                                  *)

\* egp_aliases = ("جنيه", "جنيه مصري", "ج.م", "EGP")
EgpAliases == {W_pound, W_pound \o <<" ">> \o W_misri, W_jm, W_egp}

\* any(a in (p.get("currency") or "") for a in egp_aliases)
CurrencyAccepted(p) == \E a \in EgpAliases : Contains(p.currency, a)

\* C14: the currency of every price record fetch_and_extract_prices
\* produces contains one of "جنيه", "جنيه مصري", "ج.م", "EGP", so the
\* currency filter of fetch_agent for region EG drops none of them.
C14_CurrencyNeverDropped ==
    \A n \in 1..Len(prices) : CurrencyAccepted(prices[n])

----------------------------------------------------------------------------
(* Retries and termination of fetch_and_extract_prices                     *)

\* The function runs in one thread and nothing in it waits without bound:
\* a request ends (timeout=12), as does the sleep between two attempts
\* (max=2); scoring and parsing a snippet end, so the loop over the page's
\* snippets moves to the next one; once the snippets are done the loop over
\* the links moves to the next link.

\* _get returns or raises
RequestEnds ==
    GetFailRetry \/ GetFailGiveUp \/ \E page \in PoolPages : GetOk(page)

\* "for txt in candidates" takes its next snippet
SnippetLoopAdvances == pc = "scan" /\ j <= Len(candidates) /\ j' = j + 1

\* "for url in links" goes on after the page's snippets
PageLoopAdvances == pc = "scan" /\ j > Len(candidates) /\ idx' = idx + 1

FairSpec ==
    /\ Spec
    /\ WF_vars(RequestEnds)
    /\ WF_j(SnippetLoopAdvances)
    /\ WF_idx(PageLoopAdvances)

\* C12: each URL is requested at most twice, the second time only after the
\* first attempt failed; a page whose request succeeded is processed and
\* recorded with ok = TRUE, one whose two attempts failed with ok = FALSE;
\* there is no third attempt, and the processing of the list ends.
C12_TwoAttemptsThenEnd ==
    /\ [](attempt \in {0, 1})
    /\ [][/\ attempt' > attempt =>
                /\ pc = "get" /\ attempt = 0 /\ attempt' = 1
                /\ idx' = idx /\ pages' = pages
          /\ (pc = "scan" /\ pc' # "scan") =>
                /\ pages' = Append(pages, Last(pages'))
                /\ Last(pages').ok /\ Last(pages').url = links[idx]
          /\ (pc = "get" /\ Len(pages') > Len(pages)) =>
                /\ attempt = 1
                /\ pages' = Append(pages, Last(pages'))
                /\ ~Last(pages').ok /\ Last(pages').url = links[idx]]_vars
    /\ <>(pc = "done")

\* the first URL failed twice and was recorded as failed, the first attempt
\* on the second URL has failed and the second attempt is due
C12_SecondAttemptDue ==
    /\ pc = "get"
    /\ attempt = 1
    /\ idx = 2
    /\ Len(pages) = 1
    /\ ~pages[1].ok

----------------------------------------------------------------------------
(* agents.py: helpers of the agents                                        *)

\* a <= b for two floats
FloatLE(a, b) == a.m * Pow10(b.k) <= b.m * Pow10(a.k)

\* state.get(key) or default: a missing key gives None, and so does ""
GetOr(state, key, default) ==
    IF key \in DOMAIN state /\ state[key] # "" THEN state[key] ELSE default

\* the returned dict without **state
MergeNewOnly(state, new) == new

\* {**state, **new}
Merge(state, new) ==
    [key \in DOMAIN state \cup DOMAIN new |->
        IF key \in DOMAIN new THEN new[key] ELSE state[key]]

\* region = state.get("region") or os.getenv("DEFAULT_REGION", "EG")
RegionOf(state, environment) == GetOr(state, "region", environment.DEFAULT_REGION)

\* BAD_SUBSTRINGS: a URL is an atom here, the one with "/oz" in it is named
IrrelevantURLs == {"u/oz"}

\* _likely_irrelevant(url)
LikelyIrrelevant(u) == u \in IrrelevantURLs

\* links = [u for u in links if not _likely_irrelevant(u)]
RelevantLinks(ls) == SelectSeq(ls, LAMBDA u : ~LikelyIrrelevant(u))

\* int(m.group(n)) of the digits at a .. b
HintNumber(h, a, b) == DigitsToNat(Translate(SubSeq(h, a, b)))

\* re.match(r"^(\d{4})-(\d{2})-(\d{2})$", hint)
IsoHint(h) ==
    /\ Len(h) = 10
    /\ AllDigits(h, 1, 4) /\ h[5] = "-"
    /\ AllDigits(h, 6, 7) /\ h[8] = "-"
    /\ AllDigits(h, 9, 10)

\* re.match(r"^(\d{1,2})[-/](\d{1,2})[-/](20\d{2})$", hint), the day a and
\* the month b digits long
DmyHint(h, a, b) ==
    /\ Len(h) = a + b + 6
    /\ AllDigits(h, 1, a) /\ h[a + 1] \in {"-", "/"}
    /\ AllDigits(h, a + 2, a + b + 1) /\ h[a + b + 2] \in {"-", "/"}
    /\ StartsAt(h, a + b + 3, <<"2", "0">>)
    /\ AllDigits(h, a + b + 5, a + b + 6)

\* y, mo, d of the dd-mm-yyyy form
DmyDate(h, a, b) ==
    <<HintNumber(h, a + b + 3, a + b + 6), HintNumber(h, a + 2, a + b + 1),
      HintNumber(h, 1, a)>>

\* <<y, mo, d>> of the hint, <<>> when neither pattern matches
HintDate(h) ==
    IF IsoHint(h)
    THEN <<HintNumber(h, 1, 4), HintNumber(h, 6, 7), HintNumber(h, 9, 10)>>
    ELSE IF DmyHint(h, 2, 2) THEN DmyDate(h, 2, 2)
    ELSE IF DmyHint(h, 2, 1) THEN DmyDate(h, 2, 1)
    ELSE IF DmyHint(h, 1, 2) THEN DmyDate(h, 1, 2)
    ELSE IF DmyHint(h, 1, 1) THEN DmyDate(h, 1, 1)
    ELSE <<>>

\* _is_today(hint): today is a date, so the numbers of a hint that are no
\* date (dt.date raises, the function returns False) differ from it
IsToday(h, today) ==
    IF h = <<>> THEN FALSE
    ELSE IF Strip(h) = W_today THEN TRUE
    ELSE HintDate(h) = today

\* MIN_EGP, MAX_EGP = 500.0, 20000.0
MIN_EGP == 500
MAX_EGP == 20000

\* the range without its lower end
InRangeNoMin(p) == FloatLE(p.price, MkFloat(MAX_EGP, 0))

\* MIN_EGP <= p["price"] <= MAX_EGP (every price of the scraper is a float)
InRange(p) ==
    /\ FloatLE(MkFloat(MIN_EGP, 0), p.price)
    /\ FloatLE(p.price, MkFloat(MAX_EGP, 0))

\* the two filters of region EG
EgFiltered(ps) == SelectSeq(SelectSeq(ps, CurrencyAccepted), InRange)

\* if region == "EG": ...
RegionFiltered(ps, region) == IF region = "EG" THEN EgFiltered(ps) ELSE ps

\* today_prices = [...]; if today_prices: prices = today_prices
TodayPreferred(ps, today) ==
    IF SelectSeq(ps, LAMBDA p : IsToday(p.published_hint, today)) # <<>>
    THEN SelectSeq(ps, LAMBDA p : IsToday(p.published_hint, today))
    ELSE ps

\* the prices fetch_agent keeps
KeptPrices(ps, region, today) == TodayPreferred(RegionFiltered(ps, region), today)

\* k in (18, 21, 24)
StatKarats == {18, 21, 24}

\* by_k[k]: the prices of karat k, in order
ByKarat(ps, k) == SelectSeq(ps, LAMBDA p : p.karat = k)

\* min(arr)
FloatMin(arr) ==
    CHOOSE x \in {arr[n].price : n \in 1..Len(arr)} :
        \A n \in 1..Len(arr) : FloatLE(x, arr[n].price)

\* max(arr)
FloatMax(arr) ==
    CHOOSE x \in {arr[n].price : n \in 1..Len(arr)} :
        \A n \in 1..Len(arr) : FloatLE(arr[n].price, x)

\* {"min": min(arr), "max": max(arr), "count": len(arr)}
Bucket(arr) == [min |-> FloatMin(arr), max |-> FloatMax(arr), count |-> Len(arr)]

\* stats: one entry for each karat that by_k holds
StatsOf(ps) ==
    [k \in {k \in StatKarats : ByKarat(ps, k) # <<>>} |-> Bucket(ByKarat(ps, k))]

\* f"{k}:{'with' if w else 'without'}"
WmKey(k, w) ==
    CASE k = 18 /\ w  -> "18:with"
      [] k = 18 /\ ~w -> "18:without"
      [] k = 21 /\ w  -> "21:with"
      [] k = 21 /\ ~w -> "21:without"
      [] k = 24 /\ w  -> "24:with"
      [] k = 24 /\ ~w -> "24:without"

\* the prices of the bucket (k, w)
ByKaratMaking(ps, k, w) ==
    SelectSeq(ps, LAMBDA p : p.karat = k /\ p.with_making = w)

\* stats_wm: a bucket exists once a price has touched it, so its min and max
\* are prices and the clean-up of infinities changes nothing
StatsWmOf(ps) ==
    [key \in {WmKey(ps[n].karat, ps[n].with_making) :
                n \in {i \in 1..Len(ps) : ps[i].karat \in StatKarats}} |->
        LET kw == CHOOSE c \in StatKarats \X BOOLEAN : WmKey(c[1], c[2]) = key
        IN  Bucket(ByKaratMaking(ps, kw[1], kw[2]))]

\* state.get("links", [])
LinksOf(state) == IF "links" \in DOMAIN state THEN state["links"] ELSE <<>>

\* search_agent(state), arabic_search having returned found
SearchAgent(state, environment, found) ==
    Merge(state, [region |-> RegionOf(state, environment),
                  links  |-> RelevantLinks(found)])

\* the dict fetch_agent returns, given the pages and the kept prices
FetchReturn(state, region, pgs, kept) ==
    Merge(state, [region   |-> region,
                  pages    |-> pgs,
                  prices   |-> kept,
                  stats    |-> StatsOf(kept),
                  stats_wm |-> StatsWmOf(kept)])

\* fetch_agent(state), fetch_and_extract_prices having returned fetched
FetchAgent(state, environment, fetched) ==
    FetchReturn(state, RegionOf(state, environment), fetched.pages,
                KeptPrices(fetched.prices, RegionOf(state, environment),
                           environment.today))

\* report_agent(state), _llm_call having returned report
ReportAgent(state, environment, report) ==
    Merge(state, [region |-> RegionOf(state, environment), report |-> report])

----------------------------------------------------------------------------
(* graph.py: the compiled graph                                            *)

\* class AppState(TypedDict)
AppStateKeys == {"query", "region", "links", "pages", "prices", "report"}

\* graph.add_edge(...), the entry point being "search"
Edges == {<<"search", "fetch">>, <<"fetch", "report">>, <<"report", "end">>}

\* the node after n
Successor(n) == CHOOSE m \in {"fetch", "report", "end"} : <<n, m>> \in Edges

\* what StateGraph(AppState) keeps of the dict a node returns: the library
\* is not part of the repository, so both outcomes are possible, every key
\* or the keys of AppState only
Channels(update, environment) ==
    IF environment.channels = "schema"
    THEN [key \in DOMAIN update \cap AppStateKeys |-> update[key]]
    ELSE update

\* the texts of the pages a run may fetch
D_dmy == <<"2", "0", "/", "1", "0", "/", "2", "0", "2", "5">>

GraphTexts ==
    {P_today, P_making, P_zero, P_nomatch,
     S_k18 \o S_pound, S_k24 \o S_pound, S_k22 \o S_pound,
     S_k21 \o S_pound \o D_dmy, S_header \o S_k21, S_price \o S_egp}

\* one iteration of "for url in links" whose page cannot be fetched
FailOutcome(u) ==
    [page  |-> [url |-> u, ok |-> FALSE, error |-> "RetryError"],
     price |-> <<>>]

\* one iteration of "for url in links" on a page whose one snippet is t
PageOutcome(u, t, parsed) ==
    [page  |-> [url |-> u, title |-> "Gold", ok |-> TRUE],
     price |-> IF parsed = <<>> THEN <<>>
               ELSE <<PriceRecord(u, "Gold", parsed[1], t)>>]

Outcomes ==
    [u \in URLs |->
        {FailOutcome(u)}
        \cup {PageOutcome(u, t, HeuristicPriceParse(t)) : t \in GraphTexts}]

\* the (pages, prices) fetch_and_extract_prices may return for the links ls
RECURSIVE Fetched(_)
Fetched(ls) ==
    IF ls = <<>> THEN {[pages |-> <<>>, prices |-> <<>>]}
    ELSE {[pages  |-> <<o.page>> \o r.pages,
           prices |-> o.price \o r.prices] :
            o \in Outcomes[ls[1]], r \in Fetched(Tail(ls))}

\* the lists arabic_search may return: _unique(links)[:max_results]
SearchResults ==
    {q \in SeqsUpTo(URLs \cup IrrelevantURLs, MaxLinks) : Distinct(q)}

FetchedFor == [ls \in {RelevantLinks(q) : q \in SearchResults} |-> Fetched(ls)]

\* the strings _llm_call may return: the model's answer or one of its
\* fixed messages
Reports == {"report", "no GROQ_API_KEY"}

\* the state app.py streams into the graph, and a state with a query only
AppInput(region) ==
    [query |-> "q", region |-> region, links |-> <<>>, pages |-> <<>>,
     prices |-> <<>>, report |-> "None"]

GraphInputs == {AppInput(r) : r \in {"EG", "US", ""}} \cup {[query |-> "q"]}

\* DEFAULT_REGION, the date of now_cairo(), the library's handling of keys
Environments ==
    [DEFAULT_REGION : {"EG", "US"},
     today          : {<<2025, 10, 20>>, <<2025, 10, 21>>},
     channels       : {"all", "schema"}]

\* the node "search" runs: its return is written to the state, the edge
\* leads to the next node
SearchStep ==
    /\ stage = "search"
    /\ \E found \in SearchResults : returned' = SearchAgent(st, env, found)
    /\ st' = Merge(st, Channels(returned', env))
    /\ stage' = Successor(stage)
    /\ UNCHANGED env
    /\ UNCHANGED normVars
    /\ UNCHANGED fetchVars

\* the node "fetch" runs
FetchStep ==
    /\ stage = "fetch"
    /\ \E fetched \in FetchedFor[LinksOf(st)] : returned' = FetchAgent(st, env, fetched)
    /\ st' = Merge(st, Channels(returned', env))
    /\ stage' = Successor(stage)
    /\ UNCHANGED env
    /\ UNCHANGED normVars
    /\ UNCHANGED fetchVars

\* the node "report" runs
ReportStep ==
    /\ stage = "report"
    /\ \E report \in Reports : returned' = ReportAgent(st, env, report)
    /\ st' = Merge(st, Channels(returned', env))
    /\ stage' = Successor(stage)
    /\ UNCHANGED env
    /\ UNCHANGED normVars
    /\ UNCHANGED fetchVars

\* a run of the compiled graph on any input, from its entry point
InitGraph ==
    /\ NormIdle
    /\ FetchStart(<<>>)
    /\ stage = "search"
    /\ st \in GraphInputs
    /\ returned = <<>>
    /\ env \in Environments

NextGraph == SearchStep \/ FetchStep \/ ReportStep

\* a node that is due runs, and each agent returns: the search and the LLM
\* call are bounded by their clients' timeouts, the fetch loop ends
SpecGraph == InitGraph /\ [][NextGraph]_vars /\ WF_stage(NextGraph)

----------------------------------------------------------------------------
(* C13                                                                     *)

\* the keys the return statement of a node's agent names
KeysSet(n) ==
    CASE n = "search" -> {"region", "links"}
      [] n = "fetch"  -> {"region", "pages", "prices", "stats", "stats_wm"}
      [] n = "report" -> {"region", "report"}

\* C13: a run starts at the search node; the node changes only along the
\* edges search -> fetch -> report -> end, and the state changes only when
\* a node runs, so each node runs once, in that order; the run reaches the
\* end; and every key of the state that the running node's agent does not
\* set is in the agent's return and in the next state with the same value.
C13_LinearRun ==
    /\ stage = "search"
    /\ [][/\ stage' # stage => <<stage, stage'>> \in Edges
          /\ (st' # st \/ returned' # returned) => stage' # stage
          /\ stage' # stage =>
                \A key \in DOMAIN st \ KeysSet(stage) :
                    /\ key \in DOMAIN returned' /\ returned'[key] = st[key]
                    /\ key \in DOMAIN st' /\ st'[key] = st[key]]_vars
    /\ <>(stage = "end")

\* a run is over that found no link and so no price, and still has its
\* query and a report
C13_EmptyRunEnds ==
    /\ stage = "end"
    /\ st["links"] = <<>> /\ st["prices"] = <<>> /\ st["pages"] = <<>>
    /\ st["query"] = "q" /\ st["report"] \in Reports

----------------------------------------------------------------------------
(* C15                                                                     *)

\* the fetch node has just run, for region EG
FetchedEG == stage = "report" /\ returned["region"] = "EG"

\* the count of the entry key of stats_wm, 0 when there is none
WmCount(wm, key) == IF key \in DOMAIN wm THEN wm[key].count ELSE 0

\* the positions of the prices of karat k
OfKarat(ps, k) == {n \in 1..Len(ps) : ps[n].karat = k}

\* C15: in the dict fetch_agent returns for region EG every kept price is
\* between 500 and 20000; stats has an entry exactly for the karats 18, 21
\* and 24 that a kept price has; the entry's count is the number of those
\* prices, its min and max are prices among them with min <= max; and the
\* counts of "k:with" and "k:without" in stats_wm add up to that count.
C15_RangeAndStats ==
    FetchedEG =>
        /\ \A n \in 1..Len(returned["prices"]) :
              /\ FloatLE(Float(500, 0), returned["prices"][n].price)
              /\ FloatLE(returned["prices"][n].price, Float(20000, 0))
        /\ DOMAIN returned["stats"] =
              {k \in {18, 21, 24} : OfKarat(returned["prices"], k) # {}}
        /\ \A k \in DOMAIN returned["stats"] :
              /\ returned["stats"][k].count =
                    Cardinality(OfKarat(returned["prices"], k))
              /\ FloatLE(returned["stats"][k].min, returned["stats"][k].max)
              /\ \E n \in OfKarat(returned["prices"], k) :
                    returned["prices"][n].price = returned["stats"][k].min
              /\ \E n \in OfKarat(returned["prices"], k) :
                    returned["prices"][n].price = returned["stats"][k].max
              /\ WmCount(returned["stats_wm"], WmKey(k, TRUE))
                    + WmCount(returned["stats_wm"], WmKey(k, FALSE))
                    = returned["stats"][k].count

\* two pages gave a price of karat 21, neither dated today, one with the
\* making charge: one entry of stats, two of stats_wm
C15_TwoPricesOfKarat21 ==
    /\ FetchedEG
    /\ returned["stats"] =
           (21 :> [min |-> Float(3700, 0), max |-> Float(3850, 0), count |-> 2])
    /\ DOMAIN returned["stats_wm"] = {"21:with", "21:without"}

====
